---- MODULE Spec2Model ----
(***************************************************************************)
(* Model of the DSC generator of rudder-lang                               *)
(* (src/rudder-lang/src/generators/dsc.rs).                                *)
(*                                                                         *)
(* Text.  A Rust String is modelled as a sequence of pieces.  A piece is   *)
(* a TLA+ string.  The characters the generator inspects or rewrites       *)
(* (in a compiled guard "|", "&", ".", "!", "(", ")"; in a value "$", "\\",  *)
(* "\""; in a name given to the Naming Transform or to new_var every       *)
(* character) are always pieces of their own; a fixed template of the      *)
(* generator, a metadata key or a file name, which the generator copies    *)
(* without looking inside, may be one longer piece.  Concatenation is \o.  *)
(*                                                                         *)
(* Results.  A Rust Result<String> is a record [st, text] with st one of   *)
(* "Ok", "Err" (an Error value is returned) and "Panic" (unimplemented!(), *)
(* panic!(), a failed unwrap/expect or index: the process halts).          *)
(***************************************************************************)
EXTENDS Integers, Sequences, FiniteSets, TLC

None == [some |-> FALSE]
Some(x) == [some |-> TRUE, v |-> x]

Ok(t) == [st |-> "Ok", text |-> t]
Err == [st |-> "Err", text |-> <<>>]
Panic == [st |-> "Panic", text |-> <<>>]

(***************************************************************************)
(* Text helpers (str::contains, str::replace, slice::join, {} of a u32).   *)
(***************************************************************************)
Contains(t, c) == \E i \in DOMAIN t : t[i] = c

RECURSIVE Replace(_, _, _)
Replace(t, c, by) ==
  IF t = <<>> THEN <<>>
  ELSE (IF Head(t) = c THEN by ELSE <<Head(t)>>) \o Replace(Tail(t), c, by)

\* str::replace of a two character pattern (the escapes \n, \r, \t)
RECURSIVE Replace2(_, _, _, _)
Replace2(t, c1, c2, by) ==
  IF Len(t) < 2 THEN t
  ELSE IF t[1] = c1 /\ t[2] = c2
       THEN by \o Replace2(SubSeq(t, 3, Len(t)), c1, c2, by)
       ELSE <<t[1]>> \o Replace2(Tail(t), c1, c2, by)

RECURSIVE Join(_, _)
Join(ts, sep) ==
  IF ts = <<>> THEN <<>>
  ELSE IF Len(ts) = 1 THEN ts[1]
  ELSE ts[1] \o sep \o Join(Tail(ts), sep)

Digit(d) == <<"0", "1", "2", "3", "4", "5", "6", "7", "8", "9">>[d + 1]

RECURSIVE Decimal(_)
Decimal(n) == IF n < 10 THEN <<Digit(n)>> ELSE Decimal(n \div 10) \o <<Digit(n % 10)>>

\* every arrangement of a finite set as a sequence: the orders in which a
\* HashMap may be iterated
Orders(S) ==
  {f \in [1..Cardinality(S) -> S] : \A i, j \in DOMAIN f : i # j => f[i] # f[j]}

(***************************************************************************)
(* Naming Transform                                                        *)
(***************************************************************************)
Lower == <<"a", "b", "d", "f", "n", "r", "s", "v", "x">>
Upper == <<"A", "B", "D", "F", "N", "R", "S", "V", "X">>

\* char::to_uppercase on the alphabet of the model
ToUppercase(c) ==
  IF \E i \in DOMAIN Lower : Lower[i] = c
  THEN Upper[CHOOSE i \in DOMAIN Lower : Lower[i] = c]
  ELSE c

RECURSIVE PascebabFrom(_, _)
PascebabFrom(s, is_next_uppercase) ==
  IF s = <<>> THEN <<>>
  ELSE IF Head(s) \in {" ", "_", "-"}
       THEN <<"-">> \o PascebabFrom(Tail(s), TRUE)
       ELSE IF is_next_uppercase
            THEN <<ToUppercase(Head(s))>> \o PascebabFrom(Tail(s), FALSE)
            ELSE <<Head(s)>> \o PascebabFrom(Tail(s), FALSE)

pascebab_case(s) == PascebabFrom(s, TRUE)

(***************************************************************************)
(* Values of the AST (ast::value::Value)                                   *)
(***************************************************************************)
Static(t) == [k |-> "Static", s |-> t]
Variable(t) == [k |-> "Variable", s |-> t]
VString(d) == [tag |-> "String", data |-> d]
VNumber(n) == [tag |-> "Number", n |-> n]
VBoolean(b) == [tag |-> "Boolean", b |-> b]
VEnum(e) == [tag |-> "EnumExpression", e |-> e]
VList(l) == [tag |-> "List", l |-> l]
VStruct(s) == [tag |-> "Struct", s |-> s]

\* the pieces of the text "${name}"
VarRef(y) == <<"$", "{">> \o y \o <<"}">>

(***************************************************************************)
(* Value Serializer                                                        *)
(***************************************************************************)
\* the static-fragment closure of parameter_to_dsc: backslash escape, quote
\* escape, dollar escape, in that order
ParamEscape(x) ==
  Replace(Replace(Replace(x, "\\", <<"\\", "\\">>), "\"", <<"\\", "\"">>),
          "$", <<"$", "{", "const", ".", "dollar", "}">>)

\* StrVal::format with the two closures of parameter_to_dsc: the first on
\* the static fragments, the second on the variable fragments
RECURSIVE StrFormat(_)
StrFormat(data) ==
  IF data = <<>> THEN <<>>
  ELSE (IF Head(data).k = "Static" THEN ParamEscape(Head(data).s) ELSE VarRef(Head(data).s))
       \o StrFormat(Tail(data))

parameter_to_dsc(param, param_name) ==
  CASE param.tag = "String" ->
         Ok(<<"-">> \o param_name \o <<" ", "\"">> \o StrFormat(param.data) \o <<"\"">>)
    [] param.tag = "Number" -> Panic
    [] param.tag = "Boolean" -> Panic
    [] param.tag = "EnumExpression" -> Ok(<<>>)
    [] param.tag = "List" -> Panic
    [] param.tag = "Struct" -> Panic

\* map_strings_results over results already computed, for closures that
\* touch no state: a panic halts, an error fails the whole, else the join
JoinResults(rs, sep) ==
  IF \E i \in DOMAIN rs : rs[i].st = "Panic" THEN Panic
  ELSE IF \E i \in DOMAIN rs : rs[i].st = "Err" THEN Err
  ELSE Ok(Join([i \in DOMAIN rs |-> rs[i].text], sep))

\* every way to take one element of each set of a sequence of sets
RECURSIVE Product(_)
Product(sets) ==
  IF sets = <<>> THEN {<<>>}
  ELSE {<<x>> \o rest : x \in Head(sets), rest \in Product(Tail(sets))}

\* the static-fragment rewriting of value_to_string
RawEscape(s) ==
  Replace2(Replace2(Replace2(
    Replace(s, "$", <<"$", "{", "consr", ".", "dollar", "}">>),
    "\\", "n", <<"$", "{", "const", ".", "n", "}">>),
    "\\", "r", <<"$", "{", "const", ".", "r", "}">>),
    "\\", "t", <<"$", "{", "const", ".", "t", "}">>)

RECURSIVE RawData(_)
RawData(data) ==
  IF data = <<>> THEN <<>>
  ELSE (IF Head(data).k = "Static" THEN RawEscape(Head(data).s) ELSE VarRef(Head(data).s))
       \o RawData(Tail(data))

\* {} of a number (whole numbers only in the model)
NumberText(n) == IF n < 0 THEN <<"-">> \o Decimal(0 - n) ELSE Decimal(n)

\* value_to_string: the set of results it can give (a Struct is a HashMap,
\* iterated in any order)
RECURSIVE value_to_string(_, _)
value_to_string(value, string_delim) ==
  LET delim == IF string_delim THEN <<"\"">> ELSE <<>> IN
  CASE value.tag = "String" -> {Ok(delim \o RawData(value.data) \o delim)}
    [] value.tag = "Number" -> {Ok(NumberText(value.n))}
    [] value.tag = "Boolean" -> {Ok(IF value.b THEN <<"true">> ELSE <<"false">>)}
    [] value.tag = "EnumExpression" -> {Panic}
    [] value.tag = "List" ->
         {LET r == JoinResults(rs, <<",">>) IN
            IF r.st = "Ok" THEN Ok(<<"[", " ">> \o r.text \o <<" ", "]">>) ELSE r
          : rs \in Product([i \in DOMAIN value.l |-> value_to_string(value.l[i], TRUE)])}
    [] value.tag = "Struct" ->
         UNION {
           {LET r == JoinResults(
                       [i \in DOMAIN rs |->
                          IF rs[i].st = "Ok"
                          THEN Ok(<<"\"">> \o ord[i] \o <<"\"", ":">> \o rs[i].text)
                          ELSE rs[i]], <<",">>) IN
              IF r.st = "Ok" THEN Ok(<<"{", " ">> \o r.text \o <<" ", "}">>) ELSE r
            : rs \in Product([i \in DOMAIN ord |-> value_to_string(value.s[ord[i]], TRUE)])}
           : ord \in Orders(DOMAIN value.s)}

(***************************************************************************)
(* Enum expressions (ast::enums::EnumExpression) and the Expression        *)
(* Compiler                                                                *)
(***************************************************************************)
And(a, b) == [tag |-> "And", a |-> a, b |-> b]
Or(a, b) == [tag |-> "Or", a |-> a, b |-> b]
Not(a) == [tag |-> "Not", a |-> a]
Compare(var, e, item) == [tag |-> "Compare", var |-> var, e |-> e, item |-> item]
RangeCompare(var, e, i1, i2) == [tag |-> "RangeCompare", var |-> var, e |-> e, i1 |-> i1, i2 |-> i2]
Default == [tag |-> "Default"]
NoDefault == [tag |-> "NoDefault"]

\* EnumList::enum_is_global: Some(global) of a declared enum, else None
enum_is_global(gc, e) ==
  IF e \in DOMAIN gc.enum_list THEN Some(gc.enum_list[e]) ELSE None

Paren(t) == <<"(">> \o t \o <<")">>

RECURSIVE format_case_expr(_, _, _)
format_case_expr(self, gc, case) ==
  CASE case.tag = "And" ->
         LET l == format_case_expr(self, gc, case.a)
             r == format_case_expr(self, gc, case.b)
         IN  IF l.st # "Ok" THEN l
             ELSE IF r.st # "Ok" THEN r
             ELSE LET lexpr == IF Contains(l.text, "|") THEN Paren(l.text) ELSE l.text
                      rexpr == IF Contains(r.text, "|") THEN Paren(r.text) ELSE r.text
                  IN  Ok(lexpr \o <<".">> \o rexpr)
    [] case.tag = "Or" ->
         LET l == format_case_expr(self, gc, case.a)
             r == format_case_expr(self, gc, case.b)
         IN  IF l.st # "Ok" THEN l
             ELSE IF r.st # "Ok" THEN r
             ELSE Ok(l.text \o <<"|">> \o r.text)
    [] case.tag = "Not" ->
         LET e == format_case_expr(self, gc, case.a) IN
           IF e.st # "Ok" THEN e
           ELSE LET expr == IF Contains(e.text, "|") \/ Contains(e.text, "&")
                            THEN <<"!">> \o Paren(e.text)
                            ELSE e.text
                IN  Ok(<<"!">> \o expr)
    [] case.tag = "Compare" ->
         IF enum_is_global(gc, case.e) = Some(TRUE)
         THEN Ok(case.item)
         ELSE IF case.var \in DOMAIN self.var_prefixes
              THEN Ok(self.var_prefixes[case.var] \o <<"_">> \o case.e \o <<"_">> \o case.item)
              ELSE Panic
    [] case.tag = "RangeCompare" -> Panic
    [] case.tag = "Default" ->
         IF self.current_cases = <<>>
         THEN Ok(<<"any">>)
         ELSE Ok(<<"!">> \o Paren(Join(self.current_cases, <<"|">>)))
    [] case.tag = "NoDefault" -> Ok(<<>>)

(***************************************************************************)
(* The generation context: the fields of struct DSC as a record            *)
(***************************************************************************)
Put(m, k, v) == [x \in DOMAIN m \cup {k} |-> IF x = k THEN v ELSE m[x]]

\* DSC::new
NewDSC ==
  [current_cases |-> <<>>, var_prefixes |-> <<>>, prefixes |-> <<>>,
   return_condition |-> None]

\* the variable name new_var builds for a prefix.  The counter is a u32; the
\* runs modelled here stay far below 2^32 calls, where it would overflow
VarOf(self, prefix) ==
  LET id == (IF prefix \in DOMAIN self.prefixes THEN self.prefixes[prefix] ELSE 0) + 1
  IN  prefix \o Decimal(id)

new_var(self, prefix) ==
  LET id == (IF prefix \in DOMAIN self.prefixes THEN self.prefixes[prefix] ELSE 0) + 1
  IN  [self EXCEPT !.prefixes = Put(self.prefixes, prefix, id),
                   !.var_prefixes = Put(self.var_prefixes, prefix, VarOf(self, prefix))]

reset_cases(self) == [self EXCEPT !.current_cases = <<>>]

reset_context(self) == [self EXCEPT !.var_prefixes = <<>>, !.return_condition = None]

(***************************************************************************)
(* Parameter Resolver                                                      *)
(***************************************************************************)
\* "*n as usize" of a whole number: the number itself when it is not
\* negative; for a negative number the cast saturates to 0 on the compilers
\* that define it and is undefined on the older ones, so any index
MaxIndex == 3
AsUsize(n) == IF n >= 0 THEN {n} ELSE 0..MaxIndex

\* slice::sort_by on the index: stable, equal indexes keep their order
RECURSIVE SortInsert(_, _)
SortInsert(sorted, p) ==
  IF sorted = <<>> THEN <<p>>
  ELSE IF p.index < Head(sorted).index THEN <<p>> \o sorted
  ELSE <<Head(sorted)>> \o SortInsert(Tail(sorted), p)

RECURSIVE SortByIndex(_)
SortByIndex(pairs) ==
  IF pairs = <<>> THEN <<>>
  ELSE SortInsert(SortByIndex(SubSeq(pairs, 1, Len(pairs) - 1)), pairs[Len(pairs)])

\* Vec::insert
VecInsert(v, index, x) == SubSeq(v, 1, index) \o <<x>> \o SubSeq(v, index + 1, Len(v))

\* a variant of InsertClassParams that clamps an index beyond the end
RECURSIVE InsertClassParamsClamped(_, _)
InsertClassParamsClamped(param_names, pairs) ==
  IF pairs = <<>> THEN [ok |-> TRUE, names |-> param_names]
  ELSE LET at == IF Head(pairs).index <= Len(param_names)
                 THEN Head(pairs).index ELSE Len(param_names)
       IN  InsertClassParamsClamped(VecInsert(param_names, at, Head(pairs).name), Tail(pairs))

\* the insertion loop of get_method_parameters
RECURSIVE InsertClassParams(_, _)
InsertClassParams(param_names, pairs) ==
  IF pairs = <<>> THEN [ok |-> TRUE, names |-> param_names]
  ELSE IF Head(pairs).index <= Len(param_names)
       THEN InsertClassParams(VecInsert(param_names, Head(pairs).index, Head(pairs).name),
                              Tail(pairs))
       ELSE [ok |-> FALSE, names |-> param_names]

\* the (name, index) vectors the class_parameters metadata can give: None
\* when a value is no Number, else one vector per iteration order of the
\* struct and per outcome of the casts
ClassParamNames(metadata) ==
  IF <<"class_parameters">> \in DOMAIN metadata
     /\ metadata[<<"class_parameters">>].tag = "Struct"
  THEN LET parameters == metadata[<<"class_parameters">>].s IN
         IF \E k \in DOMAIN parameters : parameters[k].tag # "Number"
         THEN {None}
         ELSE {Some([i \in DOMAIN ord |-> [name |-> ord[i], index |-> cast[ord[i]]]]) :
                 ord \in Orders(DOMAIN parameters),
                 cast \in {c \in [DOMAIN parameters -> 0..MaxIndex \cup
                                    {parameters[k].n : k \in DOMAIN parameters}] :
                             \A k \in DOMAIN parameters : c[k] \in AsUsize(parameters[k].n)}}
  ELSE {Some(<<>>)}

\* the names given to the arguments: argument i gets name i, or "unnamed"
ArgName(param_names, i) ==
  IF i <= Len(param_names) THEN param_names[i] ELSE <<"unnamed">>

\* get_method_parameters: the set of its outcomes, each with the result, the
\* sorted class parameters and the formal-name list as it returns
get_method_parameters(gc, state_decl) ==
  IF state_decl.resource \notin DOMAIN gc.resources
     \/ state_decl.state \notin DOMAIN gc.resources[state_decl.resource].states
  THEN {[res |-> Panic, sorted |-> <<>>, param_names |-> <<>>]}
  ELSE LET state_def == gc.resources[state_decl.resource].states[state_decl.state]
           param_names == [i \in DOMAIN state_def.parameters |-> state_def.parameters[i].name]
           args == state_decl.resource_params \o state_decl.state_params
       IN  {IF ~cpn.some
            THEN [res |-> Err, sorted |-> <<>>, param_names |-> param_names]
            ELSE LET sorted == SortByIndex(cpn.v)
                     ins == InsertClassParams(param_names, sorted)
                 IN  IF ~ins.ok
                     THEN [res |-> Err, sorted |-> sorted, param_names |-> ins.names]
                     ELSE [res |-> JoinResults(
                                     [i \in DOMAIN args |->
                                        parameter_to_dsc(args[i], ArgName(ins.names, i))],
                                     <<" ">>),
                           sorted |-> sorted, param_names |-> ins.names]
            : cpn \in ClassParamNames(state_def.metadata)}

(***************************************************************************)
(* Statements (ast::resource::Statement) and the Statement Compiler        *)
(***************************************************************************)
StateDeclaration(resource, state, outcome, resource_params, state_params, metadata) ==
  [tag |-> "StateDeclaration", resource |-> resource, state |-> state,
   outcome |-> outcome, resource_params |-> resource_params,
   state_params |-> state_params, metadata |-> metadata]
Case(branches) == [tag |-> "Case", branches |-> branches]
Branch(case, body) == [case |-> case, body |-> body]
Fail(msg) == [tag |-> "Fail", msg |-> msg]
Log(msg) == [tag |-> "Log", msg |-> msg]
Return(outcome) == [tag |-> "Return", outcome |-> outcome]
Noop == [tag |-> "Noop"]
VariableDefinition == [tag |-> "VariableDefinition"]

\* the component label of a state declaration: None when indexing the first
\* fragment of an empty string value panics
Component(metadata) ==
  IF <<"component">> \in DOMAIN metadata /\ metadata[<<"component">>].tag = "String"
  THEN LET data == metadata[<<"component">>].data IN
         IF data = <<>> THEN None
         ELSE IF data[1].k = "Static" THEN Some(data[1].s)
         ELSE Some(<<"a", "n", "y">>)
  ELSE Some(<<"a", "n", "y">>)

\* a directive call with one serialized argument (Fail, Log)
Directive(name, arg) ==
  IF arg.st = "Ok"
  THEN Ok(<<"      \"method_call\" usebundle => ", name, "(">> \o arg.text \o <<");\n">>)
  ELSE arg

\* the text a state declaration compiles to
CallText(component, params) ==
  <<"  $local_classes = Merge-ClassContext $local_classes $(">>
  \o pascebab_case(component) \o <<" ">> \o params
  \o <<" -componentName ", "\"">> \o component
  \o <<"\"", " -reportId $reportId -techniqueName $techniqueName -auditOnly:$auditOnly).get_item(\"classes\")">>

\* map_strings_results: every element is compiled in order, whatever the
\* earlier ones returned; a panic halts; any error fails the whole; else
\* the texts are joined
Collected(self, rs, sep) ==
  [self |-> self, res |-> JoinResults(rs, sep)]

\* format_statement: the set of its outcomes [self, res], self the context
\* it leaves and res its result; FormatAll compiles a statement list in
\* order, threading the context, and gives the list of results (it ends at a
\* panic, and at the first error when stop_at_err); FormatBranches does the
\* branches of a Case
RECURSIVE format_statement(_, _, _)
RECURSIVE FormatAll(_, _, _, _)
RECURSIVE FormatBranches(_, _, _)

FormatAll(self, gc, sts, stop_at_err) ==
  IF sts = <<>> THEN {[self |-> self, rs |-> <<>>]}
  ELSE UNION {
         IF o.res.st = "Panic" \/ (stop_at_err /\ o.res.st = "Err")
         THEN {[self |-> o.self, rs |-> <<o.res>>]}
         ELSE {[self |-> rest.self, rs |-> <<o.res>> \o rest.rs] :
                 rest \in FormatAll(o.self, gc, Tail(sts), stop_at_err)}
         : o \in format_statement(self, gc, Head(sts))}

FormatBranches(self, gc, branches) ==
  IF branches = <<>> THEN {[self |-> self, rs |-> <<>>]}
  ELSE UNION {
         LET r == JoinResults(b.rs, <<>>) IN
           IF r.st = "Panic"
           THEN {[self |-> b.self, rs |-> <<r>>]}
           ELSE {[self |-> rest.self, rs |-> <<r>> \o rest.rs] :
                   rest \in FormatBranches(b.self, gc, Tail(branches))}
         : b \in FormatAll(self, gc, Head(branches).body, FALSE)}

format_statement(self, gc, st) ==
  CASE st.tag = "StateDeclaration" ->
         LET s1 == IF st.outcome.some THEN new_var(self, st.outcome.v) ELSE self
             component == Component(st.metadata)
         IN  IF ~component.some
             THEN {[self |-> s1, res |-> Panic]}
             ELSE {[self |-> s1,
                    res |-> IF m.res.st = "Ok"
                            THEN Ok(CallText(component.v, m.res.text))
                            ELSE m.res]
                   : m \in get_method_parameters(gc, st)}
    [] st.tag = "Case" ->
         {Collected(b.self, b.rs, <<>>) :
            b \in FormatBranches(reset_cases(self), gc, st.branches)}
    [] st.tag = "Fail" ->
         {[self |-> self, res |-> Directive("ncf_fail", parameter_to_dsc(st.msg, <<"Fail">>))]}
    [] st.tag = "Log" ->
         {[self |-> self, res |-> Directive("ncf_log", parameter_to_dsc(st.msg, <<"Log">>))]}
    [] st.tag = "Return" ->
         {[self |-> [self EXCEPT !.return_condition =
                       Some(IF self.current_cases = <<>>
                            THEN <<"!", "any">>
                            ELSE <<"!">> \o Paren(self.current_cases[Len(self.current_cases)]))],
           res |-> Ok(<<"      \"method_call\" usebundle => ",
                        IF st.outcome = "kept" THEN "success"
                        ELSE IF st.outcome = "repaired" THEN "repaired"
                        ELSE "error",
                        "();\n">>)]}
    [] st.tag = "Noop" -> {[self |-> self, res |-> Ok(<<>>)]}
    [] OTHER -> {[self |-> self, res |-> Ok(<<>>)]}

(***************************************************************************)
(* Metadata Projector                                                      *)
(***************************************************************************)
\* {:?} and {:#?} of a String: quoted, with backslash and quote escaped
Debug(t) ==
  <<"\"">> \o Replace(Replace(t, "\\", <<"\\", "\\">>), "\"", <<"\\", "\"">>) \o <<"\"">>

Without(m, k) == [x \in DOMAIN m \ {k} |-> m[x]]

\* get_param_field of generate_parameters_metadatas: the set of its results
ParamField(param, entry) ==
  IF param.tag = "Struct" /\ entry \in DOMAIN param.s
  THEN {IF r.st = "Ok"
        THEN Ok(IF param.s[entry].tag = "String"
                THEN Debug(entry) \o <<":", " ">> \o Debug(r.text)
                ELSE Debug(entry) \o <<":", " ">> \o r.text)
        ELSE r
        : r \in value_to_string(param.s[entry], FALSE)}
  ELSE {Ok(<<>>)}

\* generate_parameters_metadatas: one "# @parameter" line per element of a
\* list; anything else than a list gives no line
generate_parameters_metadatas(parameters) ==
  IF parameters.some /\ parameters.v.tag = "List"
  THEN UNION {
         {JoinResults(
            [i \in DOMAIN fs |->
               IF \E j \in 1..3 : fs[i][j].st # "Ok"
               THEN Panic
               ELSE Ok(<<"# @parameter ", "{", " ">> \o fs[i][1].text \o <<",", " ">>
                       \o fs[i][2].text \o <<",", " ">> \o fs[i][3].text
                       \o <<" ", "}", "\n">>)], <<>>)}
         : fs \in Product([i \in DOMAIN parameters.v.l |->
                             Product(<<ParamField(parameters.v.l[i], <<"name">>),
                                       ParamField(parameters.v.l[i], <<"id">>),
                                       ParamField(parameters.v.l[i], <<"constraints">>)>>)])}
  ELSE {Ok(<<>>)}

\* push_metadata: the annotation line of a well-known key, when it is there
PushMetadata(map, entry) ==
  IF entry \in DOMAIN map
  THEN <<"# @">> \o entry \o <<" ">> \o Debug(map[entry]) \o <<"\n">>
  ELSE <<>>

\* the order in which generate_ncf_metadata pushes the well-known keys
WellKnown == << <<"name">>, <<"description">>, <<"version">> >>

\* the three push_metadata calls of generate_ncf_metadata, in order
RECURSIVE PushAll(_, _)
PushAll(map, entries) ==
  IF entries = <<>> THEN <<>>
  ELSE PushMetadata(map, Head(entries)) \o PushAll(map, Tail(entries))

\* generate_ncf_metadata: the set of its results (the map of the remaining
\* keys is a HashMap, iterated in any order)
generate_ncf_metadata(resource) ==
  LET meta == Without(resource.metadata, <<"parameters">>)
      removed == IF <<"parameters">> \in DOMAIN resource.metadata
                 THEN Some(resource.metadata[<<"parameters">>]) ELSE None
      keys == Orders(DOMAIN meta)
  IN  UNION {
        UNION {
          IF parameters.st # "Ok" THEN {Panic}
          ELSE IF \E i \in DOMAIN vals : vals[i].st # "Ok" THEN {Panic}
          ELSE LET map == [k \in DOMAIN meta |->
                             vals[CHOOSE i \in DOMAIN ord : ord[i] = k].text]
                   rest == DOMAIN meta \ {WellKnown[i] : i \in DOMAIN WellKnown}
               IN  {Ok(PushAll(map, WellKnown) \o parameters.text
                       \o Join([i \in DOMAIN it |->
                                  <<"# @">> \o it[i] \o <<" ">> \o map[it[i]] \o <<"\n">>],
                               <<>>))
                    : it \in Orders(rest)}
          : vals \in Product([i \in DOMAIN ord |-> value_to_string(meta[ord[i]], FALSE)])}
        : parameters \in generate_parameters_metadatas(removed),
          ord \in {CHOOSE o \in keys : TRUE}}

(***************************************************************************)
(* Destination-file resolution                                             *)
(*                                                                         *)
(* A Path is the sequence of the pieces of its text: "/" is the separator  *)
(* and every other piece is a component name.  The piece BadBytes stands   *)
(* for a run of bytes that is not valid Unicode.                           *)
(***************************************************************************)
BadBytes == "<non-unicode>"

\* Path::file_name: the last component when it is a normal one; "." is
\* dropped by Path::components, a root or ".." at the end gives None
file_name(path) ==
  LET comps == SelectSeq(path, LAMBDA c : c # "/" /\ c # ".") IN
    IF comps = <<>> THEN None
    ELSE IF comps[Len(comps)] = ".." THEN None
    ELSE Some(comps[Len(comps)])

\* Path::to_str: the text of the path when it is valid Unicode
to_str(path) == IF Contains(path, BadBytes) THEN None ELSE Some(path)

\* a variant of get_dest_file that compares the whole source path with the
\* token file name
get_dest_file_whole_path(input, cur_file, output) ==
  IF input.some
  THEN IF input.v # <<cur_file>>
       THEN [st |-> "Ok", v |-> None]
       ELSE IF ~output.some
            THEN [st |-> "Panic", v |-> None]
            ELSE IF to_str(output.v).some
                 THEN [st |-> "Ok", v |-> Some(to_str(output.v).v)]
                 ELSE [st |-> "Ok", v |-> Some(<<cur_file>>)]
  ELSE [st |-> "Ok", v |-> Some(<<cur_file>>)]

\* get_dest_file: st is "Panic" when output.unwrap() fails, else v is the
\* Option<String> returned; cur_file is one piece
get_dest_file(input, cur_file, output) ==
  IF input.some
  THEN IF file_name(input.v) # Some(cur_file)
       THEN [st |-> "Ok", v |-> None]
       ELSE IF ~output.some
            THEN [st |-> "Panic", v |-> None]
            ELSE IF to_str(output.v).some
                 THEN [st |-> "Ok", v |-> Some(to_str(output.v).v)]
                 ELSE [st |-> "Ok", v |-> Some(<<cur_file>>)]
  ELSE [st |-> "Ok", v |-> Some(<<cur_file>>)]

(***************************************************************************)
(* File Grouping & Emission: Generator::generate for DSC                   *)
(***************************************************************************)
VARIABLES
  gc,                 \* the AST: [resources, enum_list]
  source_file,        \* Option<&Path>
  dest_file,          \* Option<&Path>
  technique_metadata, \* bool
  current_cases,      \* DSC.current_cases
  var_prefixes,       \* DSC.var_prefixes
  prefixes,           \* DSC.prefixes
  return_condition,   \* DSC.return_condition
  files,              \* the local HashMap of generate: file name -> content
  pending,            \* the (resource, state) pairs the loops have yet to visit
  cur_res,            \* the resource whose states the inner loop is visiting
  written,            \* the files the write loop has done
  pc,                 \* where generate is: "compile", "write", "done", or "idle"
  result,             \* what generate returned: "none", "Ok", "Err", "Panic"
  disk,               \* the output files on disk: path -> content
  visited,            \* history: the declarations compiled, with their file
  header_calls,       \* history: the files generate_ncf_metadata was called for
  allocated,          \* history: the variable names new_var has built
  args,               \* the arguments of the function under test
  ret                 \* what it returned

vars ==
  <<gc, source_file, dest_file, technique_metadata, current_cases, var_prefixes,
    prefixes, return_condition, files, pending, cur_res, written, pc, result, disk,
    visited, header_calls, allocated, args, ret>>

\* the DSC value the four fields make
Self ==
  [current_cases |-> current_cases, var_prefixes |-> var_prefixes,
   prefixes |-> prefixes, return_condition |-> return_condition]

\* the four fields take the values of a DSC value
SetSelf(self) ==
  /\ current_cases' = self.current_cases
  /\ var_prefixes' = self.var_prefixes
  /\ prefixes' = self.prefixes
  /\ return_condition' = self.return_condition

\* the names new_var built while the counters went from before to after:
\* one per step of each counter
NewNames(before, after) ==
  UNION {{VarOf([prefixes |-> Put(<<>>, p, k - 1)], p) :
            k \in ((IF p \in DOMAIN before THEN before[p] ELSE 0) + 1)..after[p]}
         : p \in DOMAIN after}

\* the history of built names, as a bag: name -> number of times built
Allocate(bag, before, after) ==
  [n \in DOMAIN bag \cup NewNames(before, after) |->
     (IF n \in DOMAIN bag THEN bag[n] ELSE 0)
     + Cardinality({p \in DOMAIN after :
          \E k \in ((IF p \in DOMAIN before THEN before[p] ELSE 0) + 1)..after[p] :
             VarOf([prefixes |-> Put(<<>>, p, k - 1)], p) = n})]

format_param_type(value) ==
  CASE value.tag = "String" -> "string"
    [] value.tag = "Number" -> "long"
    [] value.tag = "Boolean" -> "bool"
    [] value.tag = "EnumExpression" -> "enum_expression"
    [] value.tag = "List" -> "list"
    [] value.tag = "Struct" -> "struct"

\* the parameter block of a declaration
MethodParameters(ps) ==
  Join([i \in DOMAIN ps |->
          <<"    [parameter(Mandatory=$true)]\n    [", format_param_type(ps[i].value), "]$">>
          \o pascebab_case(ps[i].name)], <<",\n">>)

Parameters(ps) ==
  Join(<< <<"    [parameter(Mandatory=$true)]\n    [string]$techniqueName">>,
          <<"    [parameter(Mandatory=$true)]\n    [string]$reportId">>,
          <<"    [switch]$auditOnly">>,
          MethodParameters(ps) >>, <<",\n">>)

\* the function definition of a declaration, from "function" to the closing brace
FunctionText(rn, sn, parameters, methods) ==
  <<"\nfunction ">> \o pascebab_case(rn) \o <<"-">> \o pascebab_case(sn)
  \o <<" {\n  [CmdletBinding()]\n  param (\n">> \o parameters
  \o <<"\n  )\n  \n  $local_classes = New-ClassContext\n  $resources_dir = $PSScriptRoot + \"\\resources\"\n\n">>
  \o methods \o <<"\n}">>

\* a variant of Content that drops what the file held before
ContentFresh(header, rn, sn, parameters, methods) ==
  <<"# generated by rudder-lang\n">> \o FunctionText(rn, sn, parameters, methods)

\* the content generate stores for a declaration
Content(header, rn, sn, parameters, methods) ==
  <<"# generated by rudder-lang\n">> \o header \o FunctionText(rn, sn, parameters, methods)

(***************************************************************************)
(* The ASTs and arguments generate is run on                               *)
(***************************************************************************)
MaxDecls == 2

RA == <<"r", "a">>
RB == <<"r", "_", "b">>
S1 == <<"s", "a">>
S2 == <<"s", " ", "b">>
Slots == {<<RA, S1>>, <<RA, S2>>, <<RB, S1>>}
TokenFiles == {"a.rl", "b.rl"}

Hi == VString(<<Static(<<"h", "i">>)>>)

\* the statement lists of the declarations: one that compiles, one that
\* halts on a number argument, a call of RA.S1 and a call of RA.S2
StmtChoices ==
  { <<Log(Hi)>>,
    <<Log(Hi), Log(VNumber(1))>>,
    <<StateDeclaration(RA, S1, Some(<<"v">>), <<Hi>>, <<>>, <<>>), Return("kept")>>,
    <<Log(Hi), StateDeclaration(RA, S2, None, <<>>, <<Hi>>, <<>>)>> }

\* the state S1 takes one parameter and has a class parameter at index 1;
\* the state S2 takes none and has a class parameter at index 2
StateDef(sn, file, statements) ==
  [file |-> file,
   parameters |-> IF sn = S1 THEN <<[name |-> <<"x">>, value |-> Hi]>> ELSE <<>>,
   metadata |-> Put(<<>>, <<"class_parameters">>,
                    VStruct(Put(<<>>, <<"p">>, VNumber(IF sn = S1 THEN 1 ELSE 2)))),
   statements |-> statements]

\* the metadata of RA can be projected; that of RB can, or holds an enum
\* expression, which cannot
ResourceMeta(rn, projectable) ==
  IF rn = RA
  THEN Put(Put(<<>>, <<"name">>, VString(<<Static(<<"r", "a">>)>>)),
           <<"version">>, VNumber(1))
  ELSE IF projectable
       THEN Put(Put(<<>>, <<"description">>, VString(<<Static(<<"r", "b">>)>>)),
                <<"category">>, VString(<<Variable(<<"x">>)>>))
       ELSE Put(<<>>, <<"name">>, VEnum(Default))

BuildGc(ch, projectable) ==
  [resources |->
     [rn \in {slot[1] : slot \in DOMAIN ch} |->
        [metadata |-> ResourceMeta(rn, projectable),
         parameters |-> IF rn = RB THEN <<[name |-> <<"n">>, value |-> VNumber(0)]>> ELSE <<>>,
         states |-> [sn \in {slot[2] : slot \in {x \in DOMAIN ch : x[1] = rn}} |->
                       StateDef(sn, ch[<<rn, sn>>][1], ch[<<rn, sn>>][2])]]],
   enum_list |-> <<>>]

GenASTs ==
  UNION {{BuildGc(ch, projectable) :
            ch \in [present -> TokenFiles \X StmtChoices], projectable \in BOOLEAN}
         : present \in {x \in SUBSET Slots : Cardinality(x) <= MaxDecls}}

SourcePath == <<"/", "src", "/", "a.rl">>
DestPath == <<"/", "out", "/", "a.dsc">>

\* the caller gives a destination whenever it gives a source
GenConfigs ==
  {<<None, None>>, <<None, Some(DestPath)>>, <<Some(SourcePath), Some(DestPath)>>,
   <<Some(SourcePath), Some(<<"/", "out", "/", BadBytes>>)>>}

Decls(g) ==
  UNION {{<<rn, sn>> : sn \in DOMAIN g.resources[rn].states} : rn \in DOMAIN g.resources}

(***************************************************************************)
(* generate, one action per iteration of its loops                         *)
(***************************************************************************)
\* DSC::new
FreshContext ==
  /\ current_cases = NewDSC.current_cases
  /\ var_prefixes = NewDSC.var_prefixes
  /\ prefixes = NewDSC.prefixes
  /\ return_condition = NewDSC.return_condition
  /\ allocated = <<>>

Init ==
  /\ gc \in GenASTs
  /\ \E c \in GenConfigs : source_file = c[1] /\ dest_file = c[2]
  /\ technique_metadata \in BOOLEAN
  /\ FreshContext
  /\ files = <<>>
  /\ pending = Decls(gc)
  /\ cur_res = None
  /\ written = {}
  /\ pc = "compile"
  /\ result = "none"
  /\ disk = <<>>
  /\ visited = <<>>
  /\ header_calls = <<>>
  /\ args = <<>>
  /\ ret = <<>>

\* the header of a declaration's file: the content stored for the file when
\* there is one, else the projected metadata or nothing
Header(file, res) ==
  IF file \in DOMAIN files THEN {Ok(files[file])}
  ELSE IF technique_metadata THEN generate_ncf_metadata(res)
  ELSE {Ok(<<>>)}

\* the ? on the collected statements: the first failure ends generate
CompileFailedOnPanicOnly(rs) == rs # <<>> /\ rs[Len(rs)].st = "Panic"

CompileFailed(rs) == rs # <<>> /\ rs[Len(rs)].st # "Ok"

\* generate returns (an error) or halts (a panic) with the context as it is
Stop(st, self) ==
  /\ pc' = "done"
  /\ result' = st
  /\ SetSelf(self)
  /\ allocated' = Allocate(allocated, prefixes, self.prefixes)

\* one iteration of the inner loop of generate
Visit(rn, sn) ==
  /\ pc = "compile"
  /\ <<rn, sn>> \in pending
  /\ cur_res.some /\ (\E d \in pending : d[1] = cur_res.v) => rn = cur_res.v
  /\ pending' = pending \ {<<rn, sn>>}
  /\ cur_res' = Some(rn)
  /\ UNCHANGED <<gc, source_file, dest_file, technique_metadata, written, disk, args, ret>>
  /\ LET res == gc.resources[rn]
         state == res.states[sn]
         d == get_dest_file(source_file, state.file, dest_file)
     IN  IF d.st = "Panic"
         THEN /\ Stop("Panic", Self)
              /\ UNCHANGED <<files, visited, header_calls>>
         ELSE IF ~d.v.some
         THEN UNCHANGED <<current_cases, var_prefixes, prefixes, return_condition, files,
                          pc, result, visited, header_calls, allocated>>
         ELSE LET file == d.v.v
                  this(st) == [rn |-> rn, sn |-> sn, file |-> file, st |-> st]
              IN
              \E header \in Header(file, res) :
                /\ header_calls' = IF file \notin DOMAIN files /\ technique_metadata
                                   THEN Append(header_calls, file) ELSE header_calls
                /\ IF header.st # "Ok"
                   THEN /\ Stop(header.st, reset_context(Self))
                        /\ visited' = Append(visited, this(header.st))
                        /\ UNCHANGED files
                   ELSE \E b \in FormatAll(reset_context(Self), gc, state.statements, TRUE) :
                          /\ visited' = Append(visited,
                               this(IF b.rs = <<>> THEN "Ok" ELSE b.rs[Len(b.rs)].st))
                          /\ IF CompileFailed(b.rs)
                             THEN /\ Stop(b.rs[Len(b.rs)].st, b.self)
                                  /\ UNCHANGED files
                             ELSE /\ files' = Put(files, file,
                                        Content(header.text, rn, sn,
                                                Parameters(res.parameters \o state.parameters),
                                                Join([i \in DOMAIN b.rs |-> b.rs[i].text],
                                                     <<"\n">>)))
                                  /\ SetSelf(b.self)
                                  /\ allocated' = Allocate(allocated, prefixes, b.self.prefixes)
                                  /\ UNCHANGED <<pc, result>>

\* a variant of CreateIfNeeded that never creates the placeholder
CreateIfNeededNever(fs, dest) ==
  IF fs = <<>> /\ ~dest.some THEN "err" ELSE "skip"

\* the "create file if needed" block: what it does for the map and the
\* destination
CreateIfNeeded(fs, dest) ==
  IF fs = <<>> THEN (IF dest.some THEN "create" ELSE "err") ELSE "skip"

UnchangedContext ==
  UNCHANGED <<current_cases, var_prefixes, prefixes, return_condition, allocated>>

\* the loops are over: the placeholder is created when the map is empty
FinishLoop ==
  /\ pc = "compile"
  /\ pending = {}
  /\ UNCHANGED <<gc, source_file, dest_file, technique_metadata, files, pending, cur_res,
                 written, visited, header_calls, args, ret>>
  /\ UnchangedContext
  /\ LET what == CreateIfNeeded(files, dest_file) IN
       CASE what = "create" ->
              \E io_ok \in BOOLEAN :
                IF io_ok
                THEN /\ disk' = Put(disk, dest_file.v, <<>>)
                     /\ pc' = "write"
                     /\ UNCHANGED result
                ELSE /\ pc' = "done" /\ result' = "Panic" /\ UNCHANGED disk
         [] what = "err" -> pc' = "done" /\ result' = "Err" /\ UNCHANGED disk
         [] what = "skip" -> pc' = "write" /\ UNCHANGED <<result, disk>>

\* one iteration of the write loop: File::create then write_all, each of
\* which may fail; a failed write_all leaves the file created and short
WriteFile(name) ==
  /\ pc = "write"
  /\ name \in DOMAIN files \ written
  /\ UNCHANGED <<gc, source_file, dest_file, technique_metadata, files, pending, cur_res,
                 visited, header_calls, args, ret>>
  /\ UnchangedContext
  /\ \E io \in {"ok", "create fails", "write_all fails"} :
       CASE io = "ok" ->
              /\ disk' = Put(disk, name, files[name])
              /\ written' = written \cup {name}
              /\ UNCHANGED <<pc, result>>
         [] io = "create fails" ->
              /\ pc' = "done" /\ result' = "Panic"
              /\ UNCHANGED <<disk, written>>
         [] io = "write_all fails" ->
              /\ \E n \in {0, 1} : disk' = Put(disk, name, SubSeq(files[name], 1, n))
              /\ pc' = "done" /\ result' = "Panic"
              /\ UNCHANGED written

\* the write loop is over: Ok(())
ReturnOk ==
  /\ pc = "write"
  /\ written = DOMAIN files
  /\ pc' = "done"
  /\ result' = "Ok"
  /\ UNCHANGED <<gc, source_file, dest_file, technique_metadata, files, pending, cur_res,
                 written, disk, visited, header_calls, args, ret>>
  /\ UnchangedContext

Next ==
  \/ \E d \in Slots : Visit(d[1], d[2])
  \/ FinishLoop
  \/ \E name \in DOMAIN files : WriteFile(name)
  \/ ReturnOk

Spec == Init /\ [][Next]_vars

(***************************************************************************)
(* Properties of generate                                                  *)
(***************************************************************************)
\* the places where the text sub occurs in the text t
Occurrences(t, sub) ==
  {i \in 1..(Len(t) - Len(sub) + 1) : SubSeq(t, i, i + Len(sub) - 1) = sub}

\* the start of the function definition of a declaration
FunctionHead(rn, sn) ==
  <<"\nfunction ">> \o pascebab_case(rn) \o <<"-">> \o pascebab_case(sn)
  \o <<" {\n  [CmdletBinding()]\n  param (\n">>

\* the declarations compiled for a file, in visiting order
VisitedFor(file) == SelectSeq(visited, LAMBDA d : d.file = file /\ d.st = "Ok")

SomeCompileFailed == \E i \in DOMAIN visited : visited[i].st # "Ok"

NoDeclarationQualified == pending = {} /\ visited = <<>>

\* C1: once the compilation of any declaration has failed (its header
\* projection or one of its statements returned an error or halted),
\* generate has ended with a failure and no output file exists, whatever the
\* in-memory map already holds.
C1_AllOrNothingOnCompileFailure ==
  SomeCompileFailed => pc = "done" /\ result \in {"Err", "Panic"} /\ disk = <<>>

\* C1 witness: a declaration failed after another one had compiled and been
\* stored in the map for the same file
C1_Witness ==
  /\ pc = "done"
  /\ Len(visited) >= 2
  /\ visited[1].st = "Ok"
  /\ visited[Len(visited)].st # "Ok"
  /\ visited[1].file = visited[Len(visited)].file
  /\ visited[1].file \in DOMAIN files

\* C2: in every terminal state generate either succeeded with every file of
\* the map created and fully written, or failed with no output file created
\* or written.
C2_CompleteOrNothing ==
  pc = "done" =>
    \/ result = "Ok" /\ \A f \in DOMAIN files : f \in DOMAIN disk /\ disk[f] = files[f]
    \/ result # "Ok" /\ disk = <<>>

\* C3: for every file of the map, the metadata header was computed once,
\* for the first declaration visited for the file and only when
\* technique_metadata is set; the content holds that header text exactly once
\* and the function definition of every declaration compiled for the file
\* exactly once, in visiting order.
C3_SameFileAccumulation ==
  /\ ~technique_metadata => header_calls = <<>>
  /\ \A i, j \in DOMAIN header_calls : i # j => header_calls[i] # header_calls[j]
  /\ \A file \in DOMAIN files :
       LET ds == VisitedFor(file)
           at(i) == Occurrences(files[file], FunctionHead(ds[i].rn, ds[i].sn))
       IN  /\ ds # <<>>
           /\ technique_metadata =>
                /\ \E i \in DOMAIN header_calls : header_calls[i] = file
                /\ \A h \in generate_ncf_metadata(gc.resources[ds[1].rn]) :
                     h.st = "Ok" /\ Cardinality(Occurrences(files[file], h.text)) = 1
           /\ \A i \in DOMAIN ds : Cardinality(at(i)) = 1
           /\ \A i, j \in DOMAIN ds :
                i < j => \A x \in at(i), y \in at(j) : x < y

\* C3 witness: two declarations were compiled into one file, with a header
C3_Witness ==
  \E file \in DOMAIN files :
    /\ Len(VisitedFor(file)) >= 2
    /\ technique_metadata
    /\ header_calls = <<file>>

\* C5 as claimed: when no declaration qualified, generate succeeds with
\* exactly one empty file at the destination if a destination was
\* configured, and returns an error without a file if none was.
C5_EmptyPassAsClaimed ==
  pc = "done" /\ NoDeclarationQualified =>
    IF dest_file.some
    THEN result = "Ok" /\ DOMAIN disk = {dest_file.v} /\ disk[dest_file.v] = <<>>
    ELSE result = "Err" /\ disk = <<>>

\* C5 amended: when no declaration qualified, then with a destination
\* configured generate either succeeds with exactly one empty file at the
\* destination, or halts without any file because File::create failed; with
\* no destination it returns an error without a file.
C5_EmptyPass ==
  pc = "done" /\ NoDeclarationQualified =>
    IF dest_file.some
    THEN \/ result = "Ok" /\ DOMAIN disk = {dest_file.v} /\ disk[dest_file.v] = <<>>
         \/ result = "Panic" /\ disk = <<>>
    ELSE result = "Err" /\ disk = <<>>

\* C5 witness: every declaration of a non-empty AST was skipped and the
\* placeholder was created
C5_Witness ==
  /\ pc = "done" /\ NoDeclarationQualified
  /\ Decls(gc) # {}
  /\ result = "Ok"
  /\ dest_file.some /\ DOMAIN disk = {dest_file.v}

(***************************************************************************)
(* get_dest_file on its own: the arguments are drawn, then it is called    *)
(***************************************************************************)
MaxPathLen == 3

\* generate is not running
NoGenerate ==
  /\ gc = [resources |-> <<>>, enum_list |-> <<>>]
  /\ source_file = None /\ dest_file = None /\ technique_metadata = FALSE
  /\ files = <<>> /\ pending = {} /\ cur_res = None /\ written = {}
  /\ pc = "idle" /\ result = "none" /\ disk = <<>>
  /\ visited = <<>> /\ header_calls = <<>>

UnchangedGenerate ==
  UNCHANGED <<gc, source_file, dest_file, technique_metadata, files, pending, cur_res,
              written, pc, result, disk, visited, header_calls>>

NotCalled == [called |-> FALSE]
Called(r) == [called |-> TRUE, r |-> r]

PathPieces == {"/", "my_file.rl", "wrong_file.rl", "..", ".", BadBytes}

\* the path texts of at most n pieces: two names are always apart by a "/"
PathsUpTo(n) ==
  UNION {{p \in [1..k -> PathPieces] :
            \A i \in 1..(k - 1) : p[i] = "/" \/ p[i + 1] = "/"} : k \in 0..n}

DestArgs ==
  [input : {None} \cup {Some(p) : p \in PathsUpTo(MaxPathLen)},
   cur_file : {"my_file.rl", "wrong_file.rl"},
   output : {None, Some(<<>>), Some(<<"/", "output", "/", "file.rl.dsc">>),
             Some(<<"/", "output", "/", BadBytes>>)}]

InitDest ==
  /\ NoGenerate /\ FreshContext
  /\ args \in DestArgs
  /\ ret = NotCalled

CallGetDestFile ==
  /\ ~ret.called
  /\ ret' = Called(get_dest_file(args.input, args.cur_file, args.output))
  /\ UNCHANGED args
  /\ UnchangedGenerate /\ UnchangedContext

NextDest == CallGetDestFile

SpecDest == InitDest /\ [][NextDest]_vars

\* the last component name of a path text, when the text ends with a name
\* (possibly followed by separators and "."), stated apart from file_name
EndsWithName(path, name) ==
  \E i \in DOMAIN path :
    /\ path[i] = name
    /\ name \notin {"/", ".", ".."}
    /\ \A j \in (i + 1)..Len(path) : path[j] \in {"/", "."}

\* C4 as claimed: with an expected source whose file name differs from the
\* token file name the result is None; with one whose file name is the
\* token file name the result is the destination path as text; with no
\* expected source the result is the token file name, whatever the
\* destination.
C4_DestFileAsClaimed ==
  ret.called =>
    /\ args.input.some /\ ~EndsWithName(args.input.v, args.cur_file) =>
         ret.r = [st |-> "Ok", v |-> None]
    /\ args.input.some /\ EndsWithName(args.input.v, args.cur_file) /\ args.output.some =>
         ret.r = [st |-> "Ok", v |-> Some(args.output.v)]
    /\ ~args.input.some => ret.r = [st |-> "Ok", v |-> Some(<<args.cur_file>>)]

\* C4 amended: as claimed, except that a destination path that is not valid
\* Unicode has no text and the result is then the token file name.
C4_DestFile ==
  ret.called =>
    /\ args.input.some /\ ~EndsWithName(args.input.v, args.cur_file) =>
         ret.r = [st |-> "Ok", v |-> None]
    /\ args.input.some /\ EndsWithName(args.input.v, args.cur_file) /\ args.output.some =>
         ret.r = [st |-> "Ok",
                  v |-> Some(IF Contains(args.output.v, BadBytes)
                             THEN <<args.cur_file>> ELSE args.output.v)]
    /\ ~args.input.some => ret.r = [st |-> "Ok", v |-> Some(<<args.cur_file>>)]

\* C4 witness: the source matched in a directory and the empty destination
\* path was returned
C4_Witness ==
  /\ ret.called
  /\ args.input.some /\ Len(args.input.v) = 3 /\ args.input.v[3] = args.cur_file
  /\ args.output = Some(<<>>)
  /\ ret.r.v = Some(<<>>)

(***************************************************************************)
(* get_method_parameters on its own: the referenced state definition and   *)
(* the state declaration are drawn, then it is called                      *)
(***************************************************************************)
MaxFormals == 2

FormalNames == << <<"x">>, <<"y">>, <<"z">>, <<"w">> >>

\* the values a class parameter can have in the metadata
ClassParamValues == {VNumber(n) : n \in (0 - 1)..MaxIndex} \cup {Hi}

ClassParamStructs ==
  UNION {[names -> ClassParamValues] : names \in SUBSET {<<"p">>, <<"q">>}}

\* an AST with the one state RA.S1
ParamGc(nformals, metadata) ==
  [resources |->
     Put(<<>>, RA,
         [metadata |-> <<>>, parameters |-> <<>>,
          states |-> Put(<<>>, S1,
             [file |-> "a.rl",
              parameters |-> [i \in 1..nformals |-> [name |-> FormalNames[i], value |-> Hi]],
              metadata |-> metadata,
              statements |-> <<>>])]),
   enum_list |-> <<>>]

ParamASTs ==
  {ParamGc(n, <<>>) : n \in 0..MaxFormals}
  \cup {ParamGc(n, Put(<<>>, <<"class_parameters">>, VStruct(cp))) :
          n \in 0..MaxFormals, cp \in ClassParamStructs}

ParamDecls ==
  {StateDeclaration(RA, sn, None, rp, sp, <<>>) :
     sn \in {S1, S2}, rp \in {<<>>, <<Hi>>}, sp \in {<<>>, <<Hi>>, <<Hi, VNumber(1)>>}}

InitParams ==
  /\ gc \in ParamASTs
  /\ source_file = None /\ dest_file = None /\ technique_metadata = FALSE
  /\ files = <<>> /\ pending = {} /\ cur_res = None /\ written = {}
  /\ pc = "idle" /\ result = "none" /\ disk = <<>>
  /\ visited = <<>> /\ header_calls = <<>>
  /\ FreshContext
  /\ args \in ParamDecls
  /\ ret = NotCalled

CallGetMethodParameters ==
  /\ ~ret.called
  /\ \E o \in get_method_parameters(gc, args) : ret' = Called(o)
  /\ UNCHANGED args
  /\ UnchangedGenerate /\ UnchangedContext

NextParams == CallGetMethodParameters

SpecParams == InitParams /\ [][NextParams]_vars

\* the referenced state definition, when the reference resolves
Resolves == args.resource \in DOMAIN gc.resources
            /\ args.state \in DOMAIN gc.resources[args.resource].states
TargetDef == gc.resources[args.resource].states[args.state]

\* the class parameters of the referenced state are all numbers
ClassParams ==
  IF <<"class_parameters">> \in DOMAIN TargetDef.metadata
  THEN TargetDef.metadata[<<"class_parameters">>].s
  ELSE <<>>
WellTyped == Resolves /\ \A k \in DOMAIN ClassParams : ClassParams[k].tag = "Number"

\* the k-th insertion finds a list of the formal names and the k-1 names
\* inserted before it; some index is beyond that length
SomeIndexOutOfBounds(sorted) ==
  \E k \in DOMAIN sorted : sorted[k].index > Len(TargetDef.parameters) + k - 1

\* C7: the class parameters are taken one pair per metadata entry, sorted
\* ascending by index; when the index of a pair exceeds the length of the
\* list at its insertion the result is an error without text; otherwise no
\* name is dropped: the list returned is longer by one per class parameter,
\* holds every class parameter name, the formal names in their order, and
\* the pair inserted last at exactly its index.
C7_ClassParameterBounds ==
  ret.called /\ WellTyped =>
    LET sorted == ret.r.sorted
        names == ret.r.param_names
        formals == [i \in DOMAIN TargetDef.parameters |-> TargetDef.parameters[i].name]
    IN  /\ Len(sorted) = Cardinality(DOMAIN ClassParams)
        /\ {sorted[i].name : i \in DOMAIN sorted} = DOMAIN ClassParams
        /\ \A i \in DOMAIN sorted : sorted[i].index \in AsUsize(ClassParams[sorted[i].name].n)
        /\ \A i, j \in DOMAIN sorted : i < j => sorted[i].index <= sorted[j].index
        /\ SomeIndexOutOfBounds(sorted) => ret.r.res = Err
        /\ ~SomeIndexOutOfBounds(sorted) =>
             /\ ret.r.res.st # "Err"
             /\ Len(names) = Len(formals) + Len(sorted)
             /\ \A i \in DOMAIN sorted : \E k \in DOMAIN names : names[k] = sorted[i].name
             /\ SelectSeq(names, LAMBDA n : n \notin DOMAIN ClassParams) = formals
             /\ sorted # <<>> =>
                  names[sorted[Len(sorted)].index + 1] = sorted[Len(sorted)].name

\* C7 witness: the first class parameter was inserted and the index of the
\* second one was beyond the list, which gave an error
C7_Witness ==
  /\ ret.called /\ WellTyped
  /\ Len(ret.r.sorted) = 2
  /\ ret.r.sorted[1].index <= Len(TargetDef.parameters)
  /\ ret.r.sorted[2].index > Len(TargetDef.parameters) + 1
  /\ ret.r.res = Err

(***************************************************************************)
(* generate_ncf_metadata on its own: the resource metadata is drawn, then  *)
(* it is called                                                            *)
(***************************************************************************)
\* the values each metadata key can have; a key may also be absent
MetaChoices ==
  [name : {None, Some(VString(<<Static(<<"n">>)>>))},
   description : {None, Some(VString(<<Static(<<"d", "$">>)>>)), Some(VEnum(Default))},
   version : {None, Some(VNumber(1))},
   parameters : {None, Some(Hi),
                 Some(VList(<<VStruct(Put(Put(<<>>, <<"name">>, Hi), <<"id">>, VNumber(7)))>>))},
   category : {None, Some(Hi)},
   level : {None, Some(VNumber(2))}]

MetaKeys ==
  {<<"name">>, <<"description">>, <<"version">>, <<"parameters">>, <<"category">>, <<"level">>}

ChoiceOf(c, k) ==
  CASE k = <<"name">> -> c.name
    [] k = <<"description">> -> c.description
    [] k = <<"version">> -> c.version
    [] k = <<"parameters">> -> c.parameters
    [] k = <<"category">> -> c.category
    [] k = <<"level">> -> c.level

MetaResources ==
  {[metadata |-> [k \in {x \in MetaKeys : ChoiceOf(c, x).some} |-> ChoiceOf(c, k).v]]
   : c \in MetaChoices}

InitMeta ==
  /\ NoGenerate /\ FreshContext
  /\ args \in MetaResources
  /\ ret = NotCalled

CallGenerateNcfMetadata ==
  /\ ~ret.called
  /\ \E r \in generate_ncf_metadata(args) : ret' = Called(r)
  /\ UNCHANGED args
  /\ UnchangedGenerate /\ UnchangedContext

NextMeta == CallGenerateNcfMetadata

SpecMeta == InitMeta /\ [][NextMeta]_vars

\* the places of the annotation line of a key in a projected text
LineOf(text, key) == Occurrences(text, <<"# @">> \o key \o <<" ">>)

\* C9: for a metadata map with name, description and version, the
\* description line comes after the name line and after the version line,
\* and each of the three keys has one line only.
C9_DescriptionLast ==
  ret.called /\ ret.r.st = "Ok"
  /\ {<<"name">>, <<"description">>, <<"version">>} \subseteq DOMAIN args.metadata =>
    /\ \A k \in {<<"name">>, <<"description">>, <<"version">>} :
         Cardinality(LineOf(ret.r.text, k)) = 1
    /\ \A d \in LineOf(ret.r.text, <<"description">>) :
         /\ \A n \in LineOf(ret.r.text, <<"name">>) : n < d
         /\ \A v \in LineOf(ret.r.text, <<"version">>) : v < d

(***************************************************************************)
(* The Statement Compiler on its own: statements are compiled one after    *)
(* the other on one DSC value, and the context is reset as generate resets *)
(* it between two declarations                                             *)
(***************************************************************************)
MaxVarId == 12

VarA == <<"a">>
VarA1 == <<"a", "1">>

Debian == Compare(<<"o">>, <<"os">>, <<"debian">>)
Ubuntu == Compare(<<"o">>, <<"os">>, <<"ubuntu">>)

\* an AST with the state RA.S1, a global enum os and a local enum e
CtxGc ==
  [resources |-> ParamGc(1, <<>>).resources,
   enum_list |-> Put(Put(<<>>, <<"os">>, TRUE), <<"e">>, FALSE)]

CtxStatements ==
  { StateDeclaration(RA, S1, Some(VarA), <<Hi>>, <<>>, <<>>),
    StateDeclaration(RA, S1, Some(VarA1), <<>>, <<Hi>>,
                     Put(<<>>, <<"component">>, VString(<<Static(<<"f", "x">>)>>))),
    StateDeclaration(RA, S1, None, <<VEnum(Debian)>>, <<>>, <<>>),
    StateDeclaration(RA, S1, None, <<VNumber(1)>>, <<>>, <<>>),
    StateDeclaration(RA, S2, None, <<Hi>>, <<>>, <<>>),
    Case(<<Branch(Debian, <<Log(Hi)>>), Branch(Ubuntu, <<Return("repaired")>>),
           Branch(Default, <<Log(Hi)>>)>>),
    Case(<<Branch(Default, <<Noop>>)>>),
    Case(<<Branch(Debian, <<Case(<<Branch(Ubuntu, <<Return("kept")>>)>>)>>),
           Branch(Default, <<StateDeclaration(RA, S1, Some(VarA), <<Hi>>, <<>>, <<>>)>>)>>),
    Log(Hi), Log(VNumber(1)), Log(VEnum(Debian)), Log(VList(<<Hi>>)),
    Fail(Hi), Fail(VBoolean(TRUE)), Fail(VStruct(Put(<<>>, <<"k">>, Hi))),
    Fail(VEnum(Default)),
    Return("kept"), Return("error"), Noop, VariableDefinition }

InitCtx ==
  /\ gc = CtxGc
  /\ source_file = None /\ dest_file = None /\ technique_metadata = FALSE
  /\ files = <<>> /\ pending = {} /\ cur_res = None /\ written = {}
  /\ pc = "idle" /\ result = "none" /\ disk = <<>>
  /\ visited = <<>> /\ header_calls = <<>>
  /\ FreshContext
  /\ args = <<>>
  /\ ret = NotCalled

\* the process has not halted
Running == ~(ret.called /\ ret.r.st = "Panic")

\* the guard histories a Case finds at each of its branches: the context
\* after reset_cases and the branches before
HistoriesAt(self, g, branches) ==
  [k \in DOMAIN branches |->
     {b.self.current_cases :
        b \in FormatBranches(reset_cases(self), g, SubSeq(branches, 1, k - 1))}]

\* format_statement on one statement of the set
FormatStatement(st) ==
  /\ Running
  /\ \A p \in DOMAIN prefixes : prefixes[p] < MaxVarId
  /\ \E o \in format_statement(Self, gc, st) :
       /\ SetSelf(o.self)
       /\ allocated' = Allocate(allocated, prefixes, o.self.prefixes)
       /\ args' = st
       /\ \E h \in (IF st.tag = "Case"
                    THEN Product(HistoriesAt(Self, gc, st.branches))
                    ELSE {<<>>}) :
            ret' = [called |-> TRUE, r |-> o.res, case_history |-> h]
  /\ UnchangedGenerate

\* reset_context, as generate calls it before each declaration
ResetContext ==
  /\ Running
  /\ SetSelf(reset_context(Self))
  /\ UNCHANGED <<allocated, args, ret>>
  /\ UnchangedGenerate

NextCtx ==
  \/ \E st \in CtxStatements : FormatStatement(st)
  \/ ResetContext

SpecCtx == InitCtx /\ [][NextCtx]_vars

(***************************************************************************)
(* Properties of the Statement Compiler                                    *)
(***************************************************************************)
\* the compiled texts of the guards of the branches before the k-th
GuardTexts(branches, k) ==
  [i \in 1..(k - 1) |-> format_case_expr(Self, gc, branches[i].case).text]

\* C6: when a Case has been compiled, the guard history found at a Default
\* branch held the compiled texts of the guards of the branches before it,
\* in order, so that the Default compiles to "!(t1|...|tn)", and to "any"
\* when it is the first branch; the history found at the first branch of a
\* Case was empty.
C6_DefaultIsComplement ==
  ret.called /\ args.tag = "Case" =>
    /\ ret.case_history[1] = <<>>
    /\ \A k \in DOMAIN args.branches :
         args.branches[k].case = Default =>
           /\ ret.case_history[k] = GuardTexts(args.branches, k)
           /\ format_case_expr([Self EXCEPT !.current_cases = ret.case_history[k]],
                               gc, Default)
              = Ok(IF k = 1 THEN <<"any">>
                   ELSE <<"!">> \o Paren(Join(GuardTexts(args.branches, k), <<"|">>)))

\* the argument values a statement carries
Arguments(st) ==
  CASE st.tag \in {"Fail", "Log"} -> <<st.msg>>
    [] st.tag = "StateDeclaration" -> st.resource_params \o st.state_params
    [] OTHER -> <<>>

\* C8: a StateDeclaration, Fail or Log that carries an argument which is
\* not a String (a Number, Boolean, List, Struct or EnumExpression) never
\* compiles to a text: the result is a failure.
C8_NonStringArgumentFails ==
  ret.called /\ args.tag \in {"Fail", "Log", "StateDeclaration"}
  /\ (\E i \in DOMAIN Arguments(args) : Arguments(args)[i].tag # "String") =>
    ret.r.st # "Ok"

\* no variable name was built by two new_var calls, and no two names of
\* var_prefixes have the same variable name
CollisionFree ==
  /\ \A n \in DOMAIN allocated : allocated[n] <= 1
  /\ \A p, q \in DOMAIN var_prefixes : p # q => var_prefixes[p] # var_prefixes[q]

\* no counter of prefixes decreases or is lost in a step
CountersGrow ==
  \A p \in DOMAIN prefixes : p \in DOMAIN prefixes' /\ prefixes'[p] >= prefixes[p]

\* C10: over any sequence of compiled statements and context resets, no two
\* new_var calls build the same variable name, no two names of var_prefixes
\* have the same variable name, the counters of prefixes never decrease, and
\* reset_context leaves them unchanged.
C10_CollisionFree ==
  /\ []CollisionFree
  /\ [][CountersGrow]_vars
  /\ [][ResetContext => prefixes' = prefixes]_vars

(***************************************************************************)
(* format_case_expr on its own: a context and an enum expression are       *)
(* drawn, then it is called                                                *)
(***************************************************************************)
MaxOps == 2

\* a comparison on the local enum e of the variable a
LocalA == Compare(VarA, <<"e">>, <<"x">>)

ExprLeaves == {Debian, LocalA, Default, NoDefault, RangeCompare(VarA, <<"e">>, <<"x">>, <<"y">>)}

\* the enum expressions built with exactly k of And, Or and Not
RECURSIVE ExprsOfSize(_)
ExprsOfSize(k) ==
  IF k = 0 THEN ExprLeaves
  ELSE {Not(a) : a \in ExprsOfSize(k - 1)}
       \cup UNION {UNION {{And(a, b), Or(a, b)} :
                            a \in ExprsOfSize(i), b \in ExprsOfSize(k - 1 - i)}
                   : i \in 0..(k - 1)}

ExprsUpTo(n) == UNION {ExprsOfSize(k) : k \in 0..n}

\* the variable a is bound (one new_var call) or not
ExprContexts == {NewDSC, new_var(NewDSC, VarA)}

InitExpr ==
  /\ gc = CtxGc
  /\ source_file = None /\ dest_file = None /\ technique_metadata = FALSE
  /\ files = <<>> /\ pending = {} /\ cur_res = None /\ written = {}
  /\ pc = "idle" /\ result = "none" /\ disk = <<>>
  /\ visited = <<>> /\ header_calls = <<>>
  /\ \E self \in ExprContexts :
       /\ current_cases = self.current_cases
       /\ var_prefixes = self.var_prefixes
       /\ prefixes = self.prefixes
       /\ return_condition = self.return_condition
       /\ allocated = Allocate(<<>>, <<>>, self.prefixes)
  /\ args \in [case : ExprsUpTo(MaxOps)]
  /\ ret = NotCalled

CallFormatCaseExpr ==
  /\ ~ret.called
  /\ ret' = Called(format_case_expr(Self, gc, args.case))
  /\ UNCHANGED args
  /\ UnchangedGenerate /\ UnchangedContext

NextExpr == CallFormatCaseExpr

SpecExpr == InitExpr /\ [][NextExpr]_vars

\* C11: when Not(a) has been compiled and its operand a compiles to the
\* text t, the result is one "!" followed by t, with t in parentheses
\* exactly when t contains the and operator "." or the or operator "|":
\* "!(x|y)" for Not(Or(x,y)), "!(x.y)" for Not(And(x,y)), "!t" for an
\* operand without operator.
C11_NegationParenthesized ==
  ret.called /\ args.case.tag = "Not" =>
    LET e == format_case_expr(Self, gc, args.case.a) IN
      e.st = "Ok" =>
        ret.r = Ok(<<"!">> \o (IF Contains(e.text, ".") \/ Contains(e.text, "|")
                               THEN Paren(e.text) ELSE e.text))

(***************************************************************************)
(* The early-return guard                                                  *)
(***************************************************************************)
\* the pending guard a statement list is to leave: seen is what preceded,
\* seen.last the text of the last branch guard seen (None when no branch
\* has run) and seen.guard the pending guard.  A Return makes the guard the
\* negation of seen.last, a Case forgets the guards seen and then sees the
\* guard of each of its branches before the body of the branch.
RECURSIVE GuardAfter(_, _)
RECURSIVE GuardAfterBranches(_, _)

GuardAfter(sts, seen) ==
  IF sts = <<>> THEN seen
  ELSE LET st == Head(sts) IN
         GuardAfter(Tail(sts),
           CASE st.tag = "Return" ->
                  [seen EXCEPT !.guard = Some(IF seen.last.some
                                              THEN <<"!">> \o Paren(seen.last.v)
                                              ELSE <<"!", "any">>)]
             [] st.tag = "Case" ->
                  GuardAfterBranches(st.branches, [seen EXCEPT !.last = None])
             [] OTHER -> seen)

GuardAfterBranches(branches, seen) ==
  IF branches = <<>> THEN seen
  ELSE GuardAfterBranches(Tail(branches),
         GuardAfter(Head(branches).body,
           [seen EXCEPT !.last = Some(format_case_expr(Self, gc, Head(branches).case).text)]))

\* the step compiles the statement st with success; a Return that is not in
\* a Case is looked at when it is the first statement compiled, so that no
\* branch has run before it
CompiledJudged(st) ==
  /\ FormatStatement(st)
  /\ ret'.r.st = "Ok"
  /\ st.tag = "Return" => ~ret.called

\* C12: a compiled statement leaves as pending return guard what its Return
\* statements make of it: "!(t)" after a Return in a Case branch whose guard
\* compiled to t, "!any" after a Return before which no branch has run, and
\* the guard it found when it holds no Return; reset_context, which generate
\* calls at the start of each declaration's generation, clears the guard.
C12_EarlyReturnGuard ==
  /\ [][\A st \in CtxStatements :
          CompiledJudged(st) =>
            return_condition' =
              GuardAfter(<<st>>, [last |-> None, guard |-> return_condition]).guard]_vars
  /\ [][ResetContext => return_condition' = None]_vars

====
